---------------------------- MODULE Spec2Model ----------------------------
(***************************************************************************)
(* A model of the Solana HTTP server of src/src: the seven POST handlers   *)
(* of handlers.rs, the response envelope and request types of types.rs,    *)
(* and the router of main.rs.                                              *)
(*                                                                         *)
(* Text is a sequence of one-character strings, bytes are numbers 0..255.  *)
(* The codecs the handlers call (bs58, base64, u64::to_le_bytes,           *)
(* Pubkey::from_str) are computed as the libraries compute them.  The      *)
(* Ed25519 primitive is a table of the real algorithm's results on the     *)
(* keys and messages of the model.                                         *)
(***************************************************************************)
EXTENDS Integers, Sequences, FiniteSets, TLC

---------------------------------------------------------------------------
(* Sequence helpers *)

\* 0-based position of c in alphabet, or -1
IndexOf(alphabet, c) ==
    IF \E i \in 1..Len(alphabet) : alphabet[i] = c
    THEN (CHOOSE i \in 1..Len(alphabet) : alphabet[i] = c) - 1
    ELSE -1

Reverse(s) == [i \in 1..Len(s) |-> s[Len(s) + 1 - i]]

\* the number of leading elements of s equal to x
CountLeading(s, x) ==
    IF \A i \in 1..Len(s) : s[i] = x THEN Len(s)
    ELSE (CHOOSE i \in 1..Len(s) : s[i] # x /\ \A j \in 1..(i - 1) : s[j] = x) - 1

Zeros(n) == [i \in 1..n |-> 0]

RangeOf(s) == {s[i] : i \in 1..Len(s)}

---------------------------------------------------------------------------
(* bs58: the Bitcoin alphabet, decode(..).into_vec() and encode(..).into_string() *)

BASE58_ALPHABET ==
    <<"1", "2", "3", "4", "5", "6", "7", "8", "9",
      "A", "B", "C", "D", "E", "F", "G", "H", "J", "K", "L", "M", "N", "P", "Q",
      "R", "S", "T", "U", "V", "W", "X", "Y", "Z",
      "a", "b", "c", "d", "e", "f", "g", "h", "i", "j", "k", "m", "n", "o", "p",
      "q", "r", "s", "t", "u", "v", "w", "x", "y", "z">>

\* one pass of the inner loop: byte b of the accumulator times radix plus carry
MulAddStep(st, b, radix) ==
    LET v == st.carry + b * radix
    IN  [carry |-> v \div 256, out |-> Append(st.out, v % 256)]

RECURSIVE MulAddRange(_, _, _, _, _)
\* the inner loop over acc[lo..hi], as a fold split in halves
MulAddRange(acc, radix, lo, hi, st) ==
    IF lo > hi THEN st
    ELSE IF lo = hi THEN MulAddStep(st, acc[lo], radix)
    ELSE LET mid == (lo + hi) \div 2
             left == MulAddRange(acc, radix, lo, mid, st)
         IN  IF left.carry < 0 THEN left
             ELSE MulAddRange(acc, radix, mid + 1, hi, left)

RECURSIVE MulAddFlush(_)
\* while val > 0 { output[index] = val & 0xFF; index += 1; val >>= 8 }
MulAddFlush(st) ==
    IF st.carry = 0 THEN st.out
    ELSE MulAddFlush([carry |-> st.carry \div 256,
                      out |-> Append(st.out, st.carry % 256)])

\* acc is a little-endian byte string: acc * radix + carry, grown as needed
MulAdd(acc, radix, carry) ==
    MulAddFlush(MulAddRange(acc, radix, 1, Len(acc),
                            [carry |-> carry, out |-> <<>>]))

\* one input character: ok turns FALSE on a character outside the alphabet
Base58Step(st, c) ==
    LET val == IndexOf(BASE58_ALPHABET, c)
    IN  IF ~st.ok \/ val < 0 THEN [ok |-> FALSE, bytes |-> <<>>]
        ELSE [ok |-> TRUE, bytes |-> MulAdd(st.bytes, 58, val)]

RECURSIVE Base58Accumulate(_, _, _, _)
\* the decode loop over text[lo..hi], as a fold split in halves
Base58Accumulate(text, lo, hi, st) ==
    IF lo > hi THEN st
    ELSE IF lo = hi THEN Base58Step(st, text[lo])
    ELSE LET mid == (lo + hi) \div 2
             left == Base58Accumulate(text, lo, mid, st)
         IN  IF ~left.ok THEN left
             ELSE Base58Accumulate(text, mid + 1, hi, left)

\* bs58::decode(text).into_vec(): [ok, bytes]
Base58DecodeImpl(text) ==
    LET r == Base58Accumulate(text, 1, Len(text), [ok |-> TRUE, bytes |-> <<>>])
    IN  IF ~r.ok THEN [ok |-> FALSE, bytes |-> <<>>]
        ELSE [ok |-> TRUE,
              bytes |-> Zeros(CountLeading(text, "1")) \o Reverse(r.bytes)]

\* one byte of the long division by 58
DivModStep(st, b) ==
    LET v == st.rem * 256 + b
    IN  [rem |-> v % 58, quot |-> Append(st.quot, v \div 58)]

RECURSIVE DivModRange(_, _, _, _)
DivModRange(bytes, lo, hi, st) ==
    IF lo > hi THEN st
    ELSE IF lo = hi THEN DivModStep(st, bytes[lo])
    ELSE LET mid == (lo + hi) \div 2
             left == DivModRange(bytes, lo, mid, st)
         IN  IF left.rem < 0 THEN left
             ELSE DivModRange(bytes, mid + 1, hi, left)

\* big-endian byte string divided by 58: [quot, rem]
DivMod58(bytes) == DivModRange(bytes, 1, Len(bytes), [rem |-> 0, quot |-> <<>>])

StripLeading(s, x) == SubSeq(s, CountLeading(s, x) + 1, Len(s))

\* one digit: the number left is divided by 58, its remainder is the next digit
\* from the right; nothing once the number is 0
Base58DigitStep(st) ==
    LET n == StripLeading(st.n, 0)
        qr == DivMod58(n)
    IN  IF n = <<>> THEN [n |-> <<>>, digits |-> st.digits]
        ELSE [n |-> qr.quot,
              digits |-> <<BASE58_ALPHABET[qr.rem + 1]>> \o st.digits]

RECURSIVE Base58DigitLoop(_, _)
\* k digit steps, as a fold split in halves
Base58DigitLoop(k, st) ==
    IF k = 0 THEN st
    ELSE IF k = 1 THEN Base58DigitStep(st)
    ELSE LET first == Base58DigitLoop(k \div 2, st)
         IN  IF first.n = <<>> THEN first
             ELSE Base58DigitLoop(k - k \div 2, first)

\* the base-58 digits of a big-endian number, most significant first: a number
\* of n bytes has at most 2n digits
Base58Digits(bytes) ==
    Base58DigitLoop(2 * Len(bytes), [n |-> bytes, digits |-> <<>>]).digits

\* bs58::encode(bytes).into_string()
Base58EncodeImpl(bytes) ==
    [i \in 1..CountLeading(bytes, 0) |-> "1"] \o Base58Digits(bytes)

---------------------------------------------------------------------------
(* base64: the STANDARD engine (padded, canonical) *)

BASE64_ALPHABET ==
    <<"A", "B", "C", "D", "E", "F", "G", "H", "I", "J", "K", "L", "M", "N", "O", "P",
      "Q", "R", "S", "T", "U", "V", "W", "X", "Y", "Z",
      "a", "b", "c", "d", "e", "f", "g", "h", "i", "j", "k", "l", "m", "n", "o", "p",
      "q", "r", "s", "t", "u", "v", "w", "x", "y", "z",
      "0", "1", "2", "3", "4", "5", "6", "7", "8", "9", "+", "/">>

B64Char(sextet) == BASE64_ALPHABET[sextet + 1]

\* the byte at 1-based position i, 0 past the end
ByteAt(bytes, i) == IF i <= Len(bytes) THEN bytes[i] ELSE 0

\* BASE64.encode(bytes): each group of 3 bytes gives 4 characters, the last
\* group padded with "="
Base64Encode(bytes) ==
    [j \in 1..(4 * ((Len(bytes) + 2) \div 3)) |->
        LET g == 3 * ((j - 1) \div 4)
            b1 == ByteAt(bytes, g + 1)
            b2 == ByteAt(bytes, g + 2)
            b3 == ByteAt(bytes, g + 3)
            k == (j - 1) % 4
        IN  IF k = 0 THEN B64Char(b1 \div 4)
            ELSE IF k = 1 THEN B64Char((b1 % 4) * 16 + b2 \div 16)
            ELSE IF k = 2
            THEN IF g + 2 > Len(bytes) THEN "="
                 ELSE B64Char((b2 % 16) * 4 + b3 \div 64)
            ELSE IF g + 3 > Len(bytes) THEN "=" ELSE B64Char(b3 % 64)]

B64Val(c) == IndexOf(BASE64_ALPHABET, c)

\* the number of "=" a well-formed text ends with: only the last two characters
\* of the last quad may be padding
B64Padding(text) ==
    IF Len(text) = 0 THEN 0
    ELSE IF text[Len(text)] # "=" THEN 0
    ELSE IF text[Len(text) - 1] # "=" THEN 1 ELSE 2

\* BASE64.decode(text): [ok, bytes]. An error on a length that is no multiple
\* of 4, a character outside the alphabet, padding anywhere but the end, or
\* nonzero bits after the last byte.
Base64DecodeImpl(text) ==
    LET n == Len(text)
        pad == B64Padding(text)
        v(i) == B64Val(text[i])
        nbytes == 3 * (n \div 4) - pad
    IN  IF n % 4 # 0 THEN [ok |-> FALSE, bytes |-> <<>>]
        ELSE IF \E i \in 1..(n - pad) : v(i) < 0
        THEN [ok |-> FALSE, bytes |-> <<>>]
        ELSE IF pad = 2 /\ v(n - 2) % 16 # 0 THEN [ok |-> FALSE, bytes |-> <<>>]
        ELSE IF pad = 1 /\ v(n - 1) % 4 # 0 THEN [ok |-> FALSE, bytes |-> <<>>]
        ELSE [ok |-> TRUE,
              bytes |-> [j \in 1..nbytes |->
                  LET q == 4 * ((j - 1) \div 3)
                      k == (j - 1) % 3
                  IN  IF k = 0 THEN v(q + 1) * 4 + v(q + 2) \div 16
                      ELSE IF k = 1 THEN (v(q + 2) % 16) * 16 + v(q + 3) \div 4
                      ELSE (v(q + 3) % 4) * 64 + v(q + 4)]]


---------------------------------------------------------------------------
(* Bounds of the model *)

\* keys of SECRET_KEY_POOL the random source may draw and clients may hold
NumKeys == 2

\* messages of MESSAGE_POOL clients send
NumMessages == 2

\* texts of ADDRESS_POOL clients send as address fields
NumAddresses == 5

\* amounts of AMOUNT_POOL clients send
NumAmounts == 4

\* decimals of DECIMALS_POOL clients send
NumDecimals == 4

\* orders in which a request body lists its fields
NumOrders == 2

\* requests the server has in flight at once
Workers == 2

Min(a, b) == IF a < b THEN a ELSE b

---------------------------------------------------------------------------
(* Constants of the program and the values clients send *)

SPL_TOKEN_PROGRAM_ID ==
    <<
      "T", "o", "k", "e", "n", "k", "e", "g", "Q", "f", "e", "Z", "y", "i",
      "N", "w", "A", "J", "b", "N", "b", "G", "K", "P", "F", "X", "C", "W",
      "u", "B", "v", "f", "9", "S", "s", "6", "2", "3", "V", "Q", "5", "D",
      "A" >>

SYSTEM_PROGRAM_ID ==
    <<
      "1", "1", "1", "1", "1", "1", "1", "1", "1", "1", "1", "1", "1", "1",
      "1", "1", "1", "1", "1", "1", "1", "1", "1", "1", "1", "1", "1", "1",
      "1", "1", "1", "1" >>

SYSVAR_RENT ==
    <<
      "S", "y", "s", "v", "a", "r", "R", "e", "n", "t", "1", "1", "1", "1",
      "1", "1", "1", "1", "1", "1", "1", "1", "1", "1", "1", "1", "1", "1",
      "1", "1", "1", "1", "1", "1", "1", "1", "1", "1", "1", "1", "1", "1",
      "1" >>

\* the width of a Pubkey, a secret key and a verifying key
PUBKEY_BYTES == 32

\* the width of a signature
SIGNATURE_BYTES == 64

\* Ed25519 secret keys: RFC 8032 test 1, RFC 8032 test 2, 32 zero bytes
SECRET_KEY_POOL ==
    << <<
         157, 97, 177, 157, 239, 253, 90, 96, 186, 132, 74, 244, 146, 236,
         44, 196, 68, 73, 197, 105, 123, 50, 105, 25, 112, 59, 172, 3, 28,
         174, 127, 96 >>,
       <<
         76, 205, 8, 155, 40, 255, 150, 218, 157, 182, 195, 70, 236, 17,
         78, 15, 91, 138, 49, 159, 53, 171, 166, 36, 218, 140, 246, 237,
         79, 184, 166, 251 >>,
       <<
         0, 0, 0, 0, 0, 0, 0, 0, 0, 0, 0, 0, 0, 0, 0, 0, 0, 0, 0, 0, 0, 0,
         0, 0, 0, 0, 0, 0, 0, 0, 0, 0 >> >>

\* their verifying keys, by SigningKey::verifying_key
PUBLIC_KEY_POOL ==
    << <<
         215, 90, 152, 1, 130, 177, 10, 183, 213, 75, 254, 211, 201, 100,
         7, 58, 14, 225, 114, 243, 218, 166, 35, 37, 175, 2, 26, 104, 247,
         7, 81, 26 >>,
       <<
         61, 64, 23, 195, 232, 67, 137, 90, 146, 183, 10, 167, 77, 27, 126,
         188, 156, 152, 44, 207, 46, 196, 150, 140, 192, 205, 85, 241, 42,
         244, 102, 12 >>,
       <<
         59, 106, 39, 188, 206, 182, 164, 45, 98, 163, 168, 208, 42, 111,
         13, 115, 101, 50, 21, 119, 29, 226, 67, 166, 58, 192, 72, 161,
         139, 89, 218, 41 >> >>

\* "hello", "" and "Hello, Solana!"
MESSAGE_POOL ==
    << <<"h", "e", "l", "l", "o">>,
       <<>>,
       <<"H", "e", "l", "l", "o", ",", " ", "S", "o", "l", "a", "n", "a", "!">> >>

\* SIGNATURE_POOL[k][m]: SigningKey::sign of MESSAGE_POOL[m] under
\* SECRET_KEY_POOL[k]
SIGNATURE_POOL ==
    << << <<
            81, 28, 164, 151, 196, 212, 39, 11, 9, 139, 26, 253, 90, 228,
            227, 185, 81, 165, 218, 44, 157, 166, 233, 192, 82, 143, 87,
            97, 136, 54, 118, 231, 223, 110, 76, 15, 14, 27, 90, 10, 68,
            68, 244, 41, 139, 24, 130, 221, 130, 47, 177, 19, 60, 189, 73,
            171, 251, 153, 108, 135, 205, 91, 133, 6 >>,
          <<
            229, 86, 67, 0, 195, 96, 172, 114, 144, 134, 226, 204, 128,
            110, 130, 138, 132, 135, 127, 30, 184, 229, 217, 116, 216, 115,
            224, 101, 34, 73, 1, 85, 95, 184, 130, 21, 144, 163, 59, 172,
            198, 30, 57, 112, 28, 249, 180, 107, 210, 91, 245, 240, 89, 91,
            190, 36, 101, 81, 65, 67, 142, 122, 16, 11 >>,
          <<
            251, 32, 136, 189, 231, 218, 161, 183, 173, 246, 134, 169, 228,
            122, 237, 245, 179, 23, 223, 142, 132, 147, 154, 249, 111, 62,
            129, 131, 44, 36, 242, 18, 162, 25, 37, 211, 149, 22, 219, 214,
            45, 134, 33, 132, 220, 112, 220, 251, 250, 37, 15, 185, 123,
            55, 223, 155, 95, 99, 170, 45, 222, 126, 95, 6 >> >>,
       << <<
            129, 145, 27, 176, 72, 111, 255, 171, 198, 142, 243, 156, 251,
            51, 163, 150, 71, 113, 93, 88, 94, 232, 3, 95, 202, 30, 0, 232,
            130, 210, 193, 213, 80, 46, 79, 28, 77, 34, 187, 30, 128, 84,
            100, 35, 175, 162, 234, 89, 118, 39, 135, 208, 139, 153, 114,
            32, 141, 4, 217, 202, 31, 31, 60, 3 >>,
          <<
            48, 207, 204, 70, 10, 62, 81, 181, 90, 195, 231, 218, 248, 141,
            187, 222, 47, 102, 199, 107, 27, 142, 111, 228, 36, 86, 143,
            34, 45, 37, 148, 5, 99, 54, 11, 156, 82, 120, 64, 182, 183,
            215, 132, 165, 161, 63, 163, 131, 102, 26, 13, 178, 115, 74,
            181, 230, 110, 172, 237, 209, 80, 175, 102, 3 >>,
          <<
            211, 229, 170, 112, 45, 80, 170, 229, 252, 3, 199, 255, 44,
            111, 9, 167, 46, 203, 8, 38, 66, 60, 170, 163, 139, 103, 37,
            126, 156, 98, 208, 248, 49, 223, 162, 70, 252, 69, 77, 76, 168,
            19, 76, 81, 238, 2, 132, 26, 25, 47, 78, 104, 137, 139, 28, 9,
            82, 143, 8, 226, 161, 38, 121, 2 >> >>,
       << <<
            226, 92, 135, 35, 208, 57, 254, 143, 69, 214, 201, 214, 168,
            145, 127, 169, 27, 199, 84, 145, 60, 213, 150, 253, 53, 138,
            73, 58, 33, 163, 203, 89, 10, 101, 55, 186, 188, 125, 240, 64,
            10, 182, 26, 5, 88, 156, 156, 54, 182, 90, 20, 56, 120, 203, 3,
            65, 212, 233, 228, 132, 25, 196, 55, 13 >>,
          <<
            143, 137, 91, 60, 175, 226, 201, 80, 96, 57, 208, 226, 166, 99,
            130, 86, 128, 4, 103, 79, 232, 210, 55, 120, 80, 146, 228, 13,
            106, 175, 72, 62, 79, 198, 1, 104, 112, 95, 49, 241, 1, 89, 97,
            56, 206, 33, 170, 53, 124, 13, 50, 160, 100, 244, 35, 220, 62,
            228, 170, 58, 191, 83, 248, 3 >>,
          <<
            43, 167, 61, 139, 94, 131, 173, 74, 183, 221, 6, 97, 157, 180,
            123, 41, 201, 37, 66, 192, 70, 82, 229, 140, 95, 109, 29, 241,
            242, 206, 210, 217, 15, 74, 50, 22, 110, 7, 252, 96, 153, 33,
            162, 86, 110, 187, 118, 236, 181, 10, 30, 123, 130, 76, 44, 76,
            118, 103, 157, 233, 54, 180, 117, 10 >> >> >>

\* a 32-byte string that is no compressed Edwards point (y = 2)
NON_POINT ==
    <<
      2, 0, 0, 0, 0, 0, 0, 0, 0, 0, 0, 0, 0, 0, 0, 0, 0, 0, 0, 0, 0, 0, 0,
      0, 0, 0, 0, 0, 0, 0, 0, 0 >>

\* an address that is a verifying key (of SECRET_KEY_POOL[1])
ALICE ==
    <<
      "F", "V", "e", "n", "3", "X", "6", "6", "9", "x", "L", "z", "s", "i",
      "6", "N", "2", "V", "9", "1", "D", "o", "i", "y", "z", "H", "z", "g",
      "1", "u", "A", "g", "q", "i", "T", "8", "j", "Z", "9", "n", "S", "9",
      "6", "Z" >>

\* an address that is a verifying key (of SECRET_KEY_POOL[2])
BOB ==
    <<
      "5", "8", "6", "Z", "7", "H", "2", "v", "p", "X", "9", "q", "N", "h",
      "N", "2", "T", "4", "e", "9", "U", "t", "u", "g", "i", "e", "3", "o",
      "g", "j", "b", "x", "z", "G", "a", "M", "t", "M", "3", "E", "6", "H",
      "R", "5" >>

\* not base58: "0", "O", "I" and "l" are outside the alphabet
NOT_BASE58 == <<"0", "O", "I", "l">>

\* base58 of 31 zero bytes
SHORT_ADDRESS ==
    <<
      "1", "1", "1", "1", "1", "1", "1", "1", "1", "1", "1", "1", "1", "1",
      "1", "1", "1", "1", "1", "1", "1", "1", "1", "1", "1", "1", "1", "1",
      "1", "1", "1" >>

\* base58 of no bytes
EMPTY_TEXT == <<>>

\* base58 of 33 zero bytes
LONG_ADDRESS ==
    <<
      "1", "1", "1", "1", "1", "1", "1", "1", "1", "1", "1", "1", "1", "1",
      "1", "1", "1", "1", "1", "1", "1", "1", "1", "1", "1", "1", "1", "1",
      "1", "1", "1", "1", "1" >>

ADDRESS_POOL ==
    <<ALICE, NOT_BASE58, SYSTEM_PROGRAM_ID, SHORT_ADDRESS, BOB, EMPTY_TEXT,
      SPL_TOKEN_PROGRAM_ID, LONG_ADDRESS>>

AddressTexts == {ADDRESS_POOL[i] : i \in 1..Min(NumAddresses, Len(ADDRESS_POOL))}

\* a u64 is four 16-bit words, most significant first (TLC's integers are 32-bit):
\* 0, 0x0102030405060708, 1_000_000, u64::MAX, 1
AMOUNT_POOL ==
    << <<0, 0, 0, 0>>, <<258, 772, 1286, 1800>>, <<0, 0, 15, 16960>>,
       <<65535, 65535, 65535, 65535>>, <<0, 0, 0, 1>> >>

Amounts == {AMOUNT_POOL[i] : i \in 1..Min(NumAmounts, Len(AMOUNT_POOL))}

DECIMALS_POOL == <<9, 0, 255, 6, 18>>

DecimalsValues == {DECIMALS_POOL[i] : i \in 1..Min(NumDecimals, Len(DECIMALS_POOL))}

Keys == 1..Min(NumKeys, Len(SECRET_KEY_POOL))

Messages == {MESSAGE_POOL[i] : i \in 1..Min(NumMessages, Len(MESSAGE_POOL))}


---------------------------------------------------------------------------
(* The codecs as the handlers call them.  The memo tables hold the codecs'  *)
(* results on the texts and byte strings of the model, so that TLC computes *)
(* each once; a value outside a table is computed directly.                 *)

KeyTexts ==
    {Base58EncodeImpl(SECRET_KEY_POOL[k]) : k \in 1..Len(SECRET_KEY_POOL)}
    \cup {Base58EncodeImpl(PUBLIC_KEY_POOL[k]) : k \in 1..Len(PUBLIC_KEY_POOL)}
    \cup {Base58EncodeImpl(NON_POINT)}

Base58Texts == RangeOf(ADDRESS_POOL) \cup {SYSVAR_RENT} \cup KeyTexts

Base58DecodeMemo == [t \in Base58Texts |-> Base58DecodeImpl(t)]

\* bs58::decode(text).into_vec()
Base58Decode(text) ==
    IF text \in DOMAIN Base58DecodeMemo THEN Base58DecodeMemo[text]
    ELSE Base58DecodeImpl(text)

Base58Blobs ==
    {Base58DecodeMemo[t].bytes : t \in {u \in Base58Texts : Base58DecodeMemo[u].ok}}

Base58EncodeMemo == [b \in Base58Blobs |-> Base58EncodeImpl(b)]

\* bs58::encode(bytes).into_string()
Base58Encode(bytes) ==
    IF bytes \in DOMAIN Base58EncodeMemo THEN Base58EncodeMemo[bytes]
    ELSE Base58EncodeImpl(bytes)

\* a signature with the lowest bit of its first byte flipped
FlipBit(sig) == [i \in 1..Len(sig) |->
                    IF i = 1 THEN (IF sig[1] % 2 = 0 THEN sig[1] + 1 ELSE sig[1] - 1)
                    ELSE sig[i]]

SignatureBlobs ==
    {SIGNATURE_POOL[k][m] : k \in 1..Len(SIGNATURE_POOL), m \in 1..Len(MESSAGE_POOL)}
    \cup {FlipBit(SIGNATURE_POOL[1][1]), SubSeq(SIGNATURE_POOL[1][1], 1, 63)}

Base64EncodeMemo == [b \in SignatureBlobs |-> Base64Encode(b)]

\* BASE64.encode(signature.to_bytes())
Base64EncodeSignature(bytes) ==
    IF bytes \in DOMAIN Base64EncodeMemo THEN Base64EncodeMemo[bytes]
    ELSE Base64Encode(bytes)

\* not base64: "!" is outside the alphabet
NOT_BASE64 == <<"!", "!", "!", "!">>

Base64Texts == {Base64EncodeMemo[b] : b \in SignatureBlobs} \cup {NOT_BASE64}

Base64DecodeMemo == [t \in Base64Texts |-> Base64DecodeImpl(t)]

\* BASE64.decode(text)
Base64Decode(text) ==
    IF text \in DOMAIN Base64DecodeMemo THEN Base64DecodeMemo[text]
    ELSE Base64DecodeImpl(text)

---------------------------------------------------------------------------
(* solana_sdk::pubkey::Pubkey *)

\* Pubkey::from_str(text): a text longer than 44 characters or decoding to
\* other than 32 bytes is WrongSize, a text that is not base58 is Invalid
PubkeyFromStr(text) ==
    LET d == Base58Decode(text)
    IN  IF Len(text) > 44 THEN [ok |-> FALSE, err |-> "WrongSize", bytes |-> <<>>]
        ELSE IF ~d.ok THEN [ok |-> FALSE, err |-> "Invalid", bytes |-> <<>>]
        ELSE IF Len(d.bytes) # PUBKEY_BYTES
        THEN [ok |-> FALSE, err |-> "WrongSize", bytes |-> <<>>]
        ELSE [ok |-> TRUE, err |-> "", bytes |-> d.bytes]

\* the base58 text without the leading 1s that stand for leading zero bytes
PubkeyToStringTrimmed(pk) ==
    LET text == Base58Encode(pk.bytes)
    IN  SubSeq(text, CountLeading(text, "1") + 1, Len(text))

\* Pubkey::to_string(): the base58 text of the 32 bytes
PubkeyToString(pk) == Base58Encode(pk.bytes)

\* the bytes most significant first, as u64::to_be_bytes gives them
U64ToBeBytes(words) ==
    [i \in 1..8 |->
        LET word == words[1 + (i - 1) \div 2]
        IN  IF (i - 1) % 2 = 0 THEN word \div 256 ELSE word % 256]

\* u64::to_le_bytes of a number given as four 16-bit words, most significant first
U64ToLeBytes(words) ==
    [i \in 1..8 |->
        LET word == words[4 - (i - 1) \div 2]
        IN  IF (i - 1) % 2 = 0 THEN word % 256 ELSE word \div 256]

\* no amount is taken for zero
U64NeverZero(words) == \E i \in 1..4 : words[i] < 0

U64IsZero(words) == \A i \in 1..4 : words[i] = 0

---------------------------------------------------------------------------
(* ed25519_dalek, as a table of the algorithm's results *)

KeyIndex(secret) ==
    CHOOSE k \in 1..Len(SECRET_KEY_POOL) : SECRET_KEY_POOL[k] = secret

MessageIndex(message) ==
    CHOOSE m \in 1..Len(MESSAGE_POOL) : MESSAGE_POOL[m] = message

\* SigningKey::from_bytes(secret).verifying_key().as_bytes()
VerifyingKeyOf(secret) == PUBLIC_KEY_POOL[KeyIndex(secret)]

\* a signature with one bit of the algorithm's changed
Ed25519SignFlipped(secret, message) ==
    FlipBit(SIGNATURE_POOL[KeyIndex(secret)][MessageIndex(message)])

\* SigningKey::from_bytes(secret).sign(message).to_bytes()
Ed25519Sign(secret, message) == SIGNATURE_POOL[KeyIndex(secret)][MessageIndex(message)]

\* the 32-byte strings of the model that decompress to a point of the curve:
\* the verifying keys and 32 zero bytes (y = 0, a point of small order)
CURVE_POINTS == RangeOf(PUBLIC_KEY_POOL) \cup {Zeros(32)}

\* VerifyingKey::from_bytes(bytes).is_ok()
VerifyingKeyFromBytes(bytes) == bytes \in CURVE_POINTS

\* verifying_key.verify(message, signature).is_ok(): the signatures the
\* algorithm accepts under a key are, among the 64-byte strings of the
\* model, the one the key's secret signs the message with
Ed25519Verify(public, message, signature) ==
    \E k \in 1..Len(PUBLIC_KEY_POOL) :
        /\ PUBLIC_KEY_POOL[k] = public
        /\ SIGNATURE_POOL[k][MessageIndex(message)] = signature

---------------------------------------------------------------------------
(* types.rs: the response envelope *)

\* Option<T>: None is the empty sequence, Some(x) the sequence of x
None == <<>>

Some(x) == <<x>>

ApiResponseSuccess(data) == [success |-> TRUE, data |-> Some(data), error |-> None]

\* an error envelope that also carries data
ApiResponseErrorWithData(error) ==
    [success |-> FALSE, data |-> Some(error), error |-> Some(error)]

ApiResponseError(error) == [success |-> FALSE, data |-> None, error |-> Some(error)]

\* the keys of the serialized envelope: a None field is skipped
SerializedKeys(response) ==
    {"success"}
    \cup (IF response.data # None THEN {"data"} ELSE {})
    \cup (IF response.error # None THEN {"error"} ELSE {})

AccountMeta(pubkey, is_signer, is_writable) ==
    [pubkey |-> pubkey, is_signer |-> is_signer, is_writable |-> is_writable]

InstructionResponse(program_id, accounts, instruction_data) ==
    [program_id |-> program_id, accounts |-> accounts,
     instruction_data |-> instruction_data]

---------------------------------------------------------------------------
(* types.rs: the request types, deserialized from a JSON body.  A body is   *)
(* [json, fields]: json is FALSE for a body that is absent or no JSON       *)
(* object, fields is the object's members in the order sent, each           *)
(* <<name, value>>, a value [type, text, words].                            *)

JsonString(text) == [type |-> "string", text |-> text, words |-> <<>>]

JsonNumber(words) == [type |-> "number", text |-> <<>>, words |-> words]

NoBody == [json |-> FALSE, fields |-> <<>>]

Occurrences(body, name) == {i \in 1..Len(body.fields) : body.fields[i][1] = name}

Field(body, name) == body.fields[CHOOSE i \in Occurrences(body, name) : TRUE][2]

\* whether a JSON value deserializes as the Rust type
HasType(value, type) ==
    IF type = "String" THEN value.type = "string"
    ELSE IF type = "u64" THEN value.type = "number"
    ELSE /\ value.type = "number"
         /\ value.words[1] = 0 /\ value.words[2] = 0 /\ value.words[3] = 0
         /\ value.words[4] <= 255

\* Json<T>: the body is a JSON object holding every field of T once, each of
\* its type; other members are ignored
Deserializes(body, schema) ==
    /\ body.json
    /\ \A i \in 1..Len(schema) :
          /\ Cardinality(Occurrences(body, schema[i][1])) = 1
          /\ HasType(Field(body, schema[i][1]), schema[i][2])

CreateTokenSchema ==
    << <<"mintAuthority", "String">>, <<"mint", "String">>, <<"decimals", "u8">> >>

CreateTokenRequest(body) ==
    [mint_authority |-> Field(body, "mintAuthority").text,
     mint |-> Field(body, "mint").text,
     decimals |-> Field(body, "decimals").words[4]]

MintTokenSchema ==
    << <<"mint", "String">>, <<"destination", "String">>,
       <<"authority", "String">>, <<"amount", "u64">> >>

MintTokenRequest(body) ==
    [mint |-> Field(body, "mint").text,
     destination |-> Field(body, "destination").text,
     authority |-> Field(body, "authority").text,
     amount |-> Field(body, "amount").words]

SignMessageSchema == << <<"message", "String">>, <<"secret", "String">> >>

SignMessageRequest(body) ==
    [message |-> Field(body, "message").text, secret |-> Field(body, "secret").text]

VerifyMessageSchema ==
    << <<"message", "String">>, <<"signature", "String">>, <<"pubkey", "String">> >>

VerifyMessageRequest(body) ==
    [message |-> Field(body, "message").text,
     signature |-> Field(body, "signature").text,
     pubkey |-> Field(body, "pubkey").text]

SendSolSchema ==
    << <<"from", "String">>, <<"to", "String">>, <<"lamports", "u64">> >>

SendSolRequest(body) ==
    [from |-> Field(body, "from").text, to |-> Field(body, "to").text,
     lamports |-> Field(body, "lamports").words]

SendTokenSchema ==
    << <<"destination", "String">>, <<"mint", "String">>,
       <<"owner", "String">>, <<"amount", "u64">> >>

SendTokenRequest(body) ==
    [destination |-> Field(body, "destination").text,
     mint |-> Field(body, "mint").text,
     owner |-> Field(body, "owner").text,
     amount |-> Field(body, "amount").words]


---------------------------------------------------------------------------
(* handlers.rs.  A handler is an operator of the request body that gives    *)
(* [resp, checks]: the response, and the validations the handler ran, in    *)
(* the order it ran them, up to and including the one that failed.          *)

Out(resp, checks) == [resp |-> resp, checks |-> checks]

MissingFields == Out(ApiResponseError("Missing required fields"), <<>>)

\* generate_keypair: key is what SigningKey::generate(&mut OsRng) draws
generate_keypair(key) ==
    LET signing_key == SECRET_KEY_POOL[key]
        verifying_key == VerifyingKeyOf(signing_key)
        pubkey == Base58Encode(verifying_key)
        secret == Base58Encode(signing_key)
    IN  Out(ApiResponseSuccess([pubkey |-> pubkey, secret |-> secret]), <<>>)

\* create_token: the account list
CreateTokenAccounts(mint) ==
    << AccountMeta(PubkeyToString(mint), FALSE, TRUE),
       AccountMeta(SYSVAR_RENT, FALSE, FALSE) >>

\* create_token: the instruction data, InitializeMint
CreateTokenData(decimals) == <<0, decimals>>

create_token(body) ==
    IF ~Deserializes(body, CreateTokenSchema) THEN MissingFields
    ELSE LET req == CreateTokenRequest(body)
             mint_authority == PubkeyFromStr(req.mint_authority)
             mint == PubkeyFromStr(req.mint)
         IN  IF ~mint_authority.ok
             THEN Out(ApiResponseError("Invalid mint authority public key"),
                      <<"mintAuthority">>)
             ELSE IF ~mint.ok
             THEN Out(ApiResponseError("Invalid mint public key"),
                      <<"mintAuthority", "mint">>)
             ELSE Out(ApiResponseSuccess(InstructionResponse(
                          SPL_TOKEN_PROGRAM_ID,
                          CreateTokenAccounts(mint),
                          Base64Encode(CreateTokenData(req.decimals)))),
                      <<"mintAuthority", "mint">>)

\* the account list with the mint first, in the order of the request's fields
MintTokenAccountsMintFirst(destination, mint, authority) ==
    << AccountMeta(PubkeyToString(mint), FALSE, TRUE),
       AccountMeta(PubkeyToString(destination), FALSE, TRUE),
       AccountMeta(PubkeyToString(authority), TRUE, FALSE) >>

\* mint_token: the account list
MintTokenAccounts(destination, mint, authority) ==
    << AccountMeta(PubkeyToString(destination), FALSE, TRUE),
       AccountMeta(PubkeyToString(mint), FALSE, TRUE),
       AccountMeta(PubkeyToString(authority), TRUE, FALSE) >>

\* mint_token: the instruction data, MintTo
MintTokenData(amount) == <<7>> \o U64ToLeBytes(amount)

\* mint_token validating the destination before the mint
mint_token_destination_first(body) ==
    IF ~Deserializes(body, MintTokenSchema) THEN MissingFields
    ELSE LET req == MintTokenRequest(body)
             mint == PubkeyFromStr(req.mint)
             destination == PubkeyFromStr(req.destination)
             authority == PubkeyFromStr(req.authority)
         IN  IF ~destination.ok
             THEN Out(ApiResponseError("Invalid destination public key"),
                      <<"destination">>)
             ELSE IF ~mint.ok
             THEN Out(ApiResponseError("Invalid mint public key"),
                      <<"destination", "mint">>)
             ELSE IF ~authority.ok
             THEN Out(ApiResponseError("Invalid authority public key"),
                      <<"destination", "mint", "authority">>)
             ELSE Out(ApiResponseSuccess(InstructionResponse(
                          SPL_TOKEN_PROGRAM_ID,
                          MintTokenAccounts(destination, mint, authority),
                          Base64Encode(MintTokenData(req.amount)))),
                      <<"destination", "mint", "authority">>)

mint_token(body) ==
    IF ~Deserializes(body, MintTokenSchema) THEN MissingFields
    ELSE LET req == MintTokenRequest(body)
             mint == PubkeyFromStr(req.mint)
             destination == PubkeyFromStr(req.destination)
             authority == PubkeyFromStr(req.authority)
         IN  IF ~mint.ok
             THEN Out(ApiResponseError("Invalid mint public key"), <<"mint">>)
             ELSE IF ~destination.ok
             THEN Out(ApiResponseError("Invalid destination public key"),
                      <<"mint", "destination">>)
             ELSE IF ~authority.ok
             THEN Out(ApiResponseError("Invalid authority public key"),
                      <<"mint", "destination", "authority">>)
             ELSE Out(ApiResponseSuccess(InstructionResponse(
                          SPL_TOKEN_PROGRAM_ID,
                          MintTokenAccounts(destination, mint, authority),
                          Base64Encode(MintTokenData(req.amount)))),
                      <<"mint", "destination", "authority">>)

sign_message(body) ==
    IF ~Deserializes(body, SignMessageSchema) THEN MissingFields
    ELSE LET req == SignMessageRequest(body)
             secret == Base58Decode(req.secret)
             verifying_key == VerifyingKeyOf(secret.bytes)
             signature == Ed25519Sign(secret.bytes, req.message)
         IN  IF ~secret.ok
             THEN Out(ApiResponseError("Invalid secret key format"),
                      <<"secret_format">>)
             ELSE IF Len(secret.bytes) # PUBKEY_BYTES
             THEN Out(ApiResponseError("Invalid secret key length"),
                      <<"secret_format", "secret_length">>)
             ELSE Out(ApiResponseSuccess(
                          [signature |-> Base64EncodeSignature(signature),
                           public_key |-> Base58Encode(verifying_key),
                           message |-> req.message]),
                      <<"secret_format", "secret_length", "sign">>)

\* verify_message answering a signature that does not verify with an error
verify_message_rejecting(body) ==
    IF ~Deserializes(body, VerifyMessageSchema) THEN MissingFields
    ELSE LET req == VerifyMessageRequest(body)
             pubkey == Base58Decode(req.pubkey)
             signature == Base64Decode(req.signature)
             is_valid == Ed25519Verify(pubkey.bytes, req.message, signature.bytes)
         IN  IF ~pubkey.ok
             THEN Out(ApiResponseError("Invalid public key format"),
                      <<"pubkey_format">>)
             ELSE IF Len(pubkey.bytes) # PUBKEY_BYTES
             THEN Out(ApiResponseError("Invalid public key length"),
                      <<"pubkey_format", "pubkey_length">>)
             ELSE IF ~VerifyingKeyFromBytes(pubkey.bytes)
             THEN Out(ApiResponseError("Invalid public key"),
                      <<"pubkey_format", "pubkey_length", "pubkey_point">>)
             ELSE IF ~signature.ok
             THEN Out(ApiResponseError("Invalid signature format"),
                      <<"pubkey_format", "pubkey_length", "pubkey_point",
                        "signature_format">>)
             ELSE IF Len(signature.bytes) # SIGNATURE_BYTES
             THEN Out(ApiResponseError("Invalid signature length"),
                      <<"pubkey_format", "pubkey_length", "pubkey_point",
                        "signature_format", "signature_length">>)
             ELSE IF ~is_valid
             THEN Out(ApiResponseError("Invalid signature"),
                      <<"pubkey_format", "pubkey_length", "pubkey_point",
                        "signature_format", "signature_length", "verify">>)
             ELSE Out(ApiResponseSuccess(
                          [valid |-> is_valid, message |-> req.message,
                           pubkey |-> req.pubkey]),
                      <<"pubkey_format", "pubkey_length", "pubkey_point",
                        "signature_format", "signature_length", "verify">>)

verify_message(body) ==
    IF ~Deserializes(body, VerifyMessageSchema) THEN MissingFields
    ELSE LET req == VerifyMessageRequest(body)
             pubkey == Base58Decode(req.pubkey)
             signature == Base64Decode(req.signature)
             is_valid == Ed25519Verify(pubkey.bytes, req.message, signature.bytes)
         IN  IF ~pubkey.ok
             THEN Out(ApiResponseError("Invalid public key format"),
                      <<"pubkey_format">>)
             ELSE IF Len(pubkey.bytes) # PUBKEY_BYTES
             THEN Out(ApiResponseError("Invalid public key length"),
                      <<"pubkey_format", "pubkey_length">>)
             ELSE IF ~VerifyingKeyFromBytes(pubkey.bytes)
             THEN Out(ApiResponseError("Invalid public key"),
                      <<"pubkey_format", "pubkey_length", "pubkey_point">>)
             ELSE IF ~signature.ok
             THEN Out(ApiResponseError("Invalid signature format"),
                      <<"pubkey_format", "pubkey_length", "pubkey_point",
                        "signature_format">>)
             ELSE IF Len(signature.bytes) # SIGNATURE_BYTES
             THEN Out(ApiResponseError("Invalid signature length"),
                      <<"pubkey_format", "pubkey_length", "pubkey_point",
                        "signature_format", "signature_length">>)
             ELSE Out(ApiResponseSuccess(
                          [valid |-> is_valid, message |-> req.message,
                           pubkey |-> req.pubkey]),
                      <<"pubkey_format", "pubkey_length", "pubkey_point",
                        "signature_format", "signature_length", "verify">>)

\* send_sol: the account list
SendSolAccounts(from, to) ==
    << AccountMeta(PubkeyToString(from), TRUE, TRUE),
       AccountMeta(PubkeyToString(to), FALSE, TRUE) >>

\* send_sol: the instruction data, the system program's Transfer
SendSolData(lamports) == <<2, 0, 0, 0>> \o U64ToLeBytes(lamports)

send_sol(body) ==
    IF ~Deserializes(body, SendSolSchema) THEN MissingFields
    ELSE LET req == SendSolRequest(body)
             from == PubkeyFromStr(req.from)
             to == PubkeyFromStr(req.to)
         IN  IF ~from.ok
             THEN Out(ApiResponseError("Invalid sender public key"), <<"from">>)
             ELSE IF ~to.ok
             THEN Out(ApiResponseError("Invalid recipient public key"),
                      <<"from", "to">>)
             ELSE IF U64IsZero(req.lamports)
             THEN Out(ApiResponseError("Amount must be greater than 0"),
                      <<"from", "to", "lamports">>)
             ELSE Out(ApiResponseSuccess(InstructionResponse(
                          SYSTEM_PROGRAM_ID,
                          SendSolAccounts(from, to),
                          Base64Encode(SendSolData(req.lamports)))),
                      <<"from", "to", "lamports">>)

\* send_token: format!("{}Source", owner)
SourceTokenAccount(owner) ==
    PubkeyToString(owner) \o <<"S", "o", "u", "r", "c", "e">>

\* send_token: the account list
SendTokenAccounts(destination, owner) ==
    << AccountMeta(SourceTokenAccount(owner), FALSE, TRUE),
       AccountMeta(PubkeyToString(destination), FALSE, TRUE),
       AccountMeta(PubkeyToString(owner), TRUE, FALSE) >>

\* send_token: the instruction data, Transfer
SendTokenData(amount) == <<3>> \o U64ToLeBytes(amount)

send_token(body) ==
    IF ~Deserializes(body, SendTokenSchema) THEN MissingFields
    ELSE LET req == SendTokenRequest(body)
             destination == PubkeyFromStr(req.destination)
             mint == PubkeyFromStr(req.mint)
             owner == PubkeyFromStr(req.owner)
         IN  IF ~destination.ok
             THEN Out(ApiResponseError("Invalid destination public key"),
                      <<"destination">>)
             ELSE IF ~mint.ok
             THEN Out(ApiResponseError("Invalid mint public key"),
                      <<"destination", "mint">>)
             ELSE IF ~owner.ok
             THEN Out(ApiResponseError("Invalid owner public key"),
                      <<"destination", "mint", "owner">>)
             ELSE IF U64IsZero(req.amount)
             THEN Out(ApiResponseError("Amount must be greater than 0"),
                      <<"destination", "mint", "owner", "amount">>)
             ELSE Out(ApiResponseSuccess(InstructionResponse(
                          SPL_TOKEN_PROGRAM_ID,
                          SendTokenAccounts(destination, owner),
                          Base64Encode(SendTokenData(req.amount)))),
                      <<"destination", "mint", "owner", "amount">>)

\* main.rs: health_check
health_check == Out(ApiResponseSuccess("Solana HTTP Server is running!"), <<>>)


---------------------------------------------------------------------------
(* The requests clients send *)

\* the fields of a body, listed from the k-th on
Rotate(fields, k) ==
    [i \in 1..Len(fields) |-> fields[((i - 1 + k) % Len(fields)) + 1]]

Orders == 0..(NumOrders - 1)

JsonBody(fields, k) == [json |-> TRUE, fields |-> Rotate(fields, k)]

\* bodies around a well-formed one: none, a field missing, a field twice, a
\* field of the wrong type, and a member the request type does not have
VariantBodies(fields) ==
    { NoBody,
      [json |-> TRUE, fields |-> Tail(fields)],
      [json |-> TRUE, fields |-> fields \o <<fields[1]>>],
      [json |-> TRUE,
       fields |-> << <<fields[1][1], JsonNumber(<<0, 0, 0, 7>>)>> >> \o Tail(fields)],
      [json |-> TRUE, fields |-> fields \o << <<"memo", JsonString(<<"x">>)>> >>] }

CreateTokenFields(mint_authority, mint, decimals) ==
    << <<"mintAuthority", JsonString(mint_authority)>>,
       <<"mint", JsonString(mint)>>,
       <<"decimals", JsonNumber(<<0, 0, 0, decimals>>)>> >>

CreateTokenBodies ==
    {JsonBody(CreateTokenFields(a, m, d), k) :
        a \in AddressTexts, m \in AddressTexts, d \in DecimalsValues, k \in Orders}
    \cup VariantBodies(CreateTokenFields(ALICE, BOB, 9))
    \cup {JsonBody(CreateTokenFields(ALICE, BOB, 256), 0)}

MintTokenFields(mint, destination, authority, amount) ==
    << <<"mint", JsonString(mint)>>,
       <<"destination", JsonString(destination)>>,
       <<"authority", JsonString(authority)>>,
       <<"amount", JsonNumber(amount)>> >>

MintTokenBodies ==
    {JsonBody(MintTokenFields(m, d, a, n), k) :
        m \in AddressTexts, d \in AddressTexts, a \in AddressTexts,
        n \in Amounts, k \in Orders}
    \cup VariantBodies(MintTokenFields(ALICE, BOB, SYSTEM_PROGRAM_ID, AMOUNT_POOL[2]))

SecretTexts ==
    {Base58Encode(SECRET_KEY_POOL[k]) : k \in Keys} \cup {NOT_BASE58, SHORT_ADDRESS}

SignMessageFields(message, secret) ==
    << <<"message", JsonString(message)>>, <<"secret", JsonString(secret)>> >>

SignMessageBodies ==
    {JsonBody(SignMessageFields(m, t), k) :
        m \in Messages, t \in SecretTexts, k \in Orders}
    \cup VariantBodies(SignMessageFields(MESSAGE_POOL[1],
                                         Base58Encode(SECRET_KEY_POOL[1])))

PubkeyTexts ==
    {Base58Encode(PUBLIC_KEY_POOL[k]) : k \in Keys}
    \cup {Base58Encode(NON_POINT), NOT_BASE58, SHORT_ADDRESS, SYSTEM_PROGRAM_ID}

SignatureTexts ==
    {Base64EncodeSignature(SIGNATURE_POOL[k][MessageIndex(m)]) :
        k \in Keys, m \in Messages}
    \cup {Base64EncodeSignature(FlipBit(SIGNATURE_POOL[1][1])),
          Base64EncodeSignature(SubSeq(SIGNATURE_POOL[1][1], 1, 63)),
          NOT_BASE64}

VerifyMessageFields(message, signature, pubkey) ==
    << <<"message", JsonString(message)>>,
       <<"signature", JsonString(signature)>>,
       <<"pubkey", JsonString(pubkey)>> >>

VerifyMessageBodies ==
    {JsonBody(VerifyMessageFields(m, g, t), k) :
        m \in Messages, g \in SignatureTexts, t \in PubkeyTexts, k \in Orders}
    \cup VariantBodies(VerifyMessageFields(
             MESSAGE_POOL[1], Base64EncodeSignature(SIGNATURE_POOL[1][1]),
             Base58Encode(PUBLIC_KEY_POOL[1])))

SendSolFields(from, to, lamports) ==
    << <<"from", JsonString(from)>>, <<"to", JsonString(to)>>,
       <<"lamports", JsonNumber(lamports)>> >>

SendSolBodies ==
    {JsonBody(SendSolFields(f, t, n), k) :
        f \in AddressTexts, t \in AddressTexts, n \in Amounts, k \in Orders}
    \cup VariantBodies(SendSolFields(ALICE, BOB, AMOUNT_POOL[3]))

SendTokenFields(destination, mint, owner, amount) ==
    << <<"destination", JsonString(destination)>>,
       <<"mint", JsonString(mint)>>,
       <<"owner", JsonString(owner)>>,
       <<"amount", JsonNumber(amount)>> >>

SendTokenBodies ==
    {JsonBody(SendTokenFields(d, m, o, n), k) :
        d \in AddressTexts, m \in AddressTexts, o \in AddressTexts,
        n \in Amounts, k \in Orders}
    \cup VariantBodies(SendTokenFields(BOB, SYSTEM_PROGRAM_ID, ALICE, AMOUNT_POOL[2]))

Request(route, body) == [route |-> route, body |-> body]

SessionRequests ==
    {Request("/keypair", NoBody)}
    \cup {Request("/message/sign", b) : b \in SignMessageBodies}
    \cup {Request("/message/verify", b) : b \in VerifyMessageBodies}

\* main.rs: the routes of the router
Requests ==
    {Request("/", NoBody)}
    \cup SessionRequests
    \cup {Request("/token/create", b) : b \in CreateTokenBodies}
    \cup {Request("/token/mint", b) : b \in MintTokenBodies}
    \cup {Request("/send/sol", b) : b \in SendSolBodies}
    \cup {Request("/send/token", b) : b \in SendTokenBodies}

\* the requests of the concurrent specification: one or two of each route
ConcurrentRequests ==
    { Request("/keypair", NoBody),
      Request("/token/create", JsonBody(CreateTokenFields(ALICE, BOB, 9), 0)),
      Request("/token/mint",
              JsonBody(MintTokenFields(NOT_BASE58, BOB, ALICE, AMOUNT_POOL[2]), 0)),
      Request("/token/mint",
              JsonBody(MintTokenFields(SHORT_ADDRESS, BOB, ALICE, AMOUNT_POOL[2]), 0)),
      Request("/message/sign",
              JsonBody(SignMessageFields(MESSAGE_POOL[1],
                                         Base58Encode(SECRET_KEY_POOL[1])), 0)),
      Request("/message/verify",
              JsonBody(VerifyMessageFields(
                  MESSAGE_POOL[1], Base64EncodeSignature(SIGNATURE_POOL[1][1]),
                  Base58Encode(PUBLIC_KEY_POOL[1])), 0)),
      Request("/send/sol", JsonBody(SendSolFields(ALICE, BOB, AMOUNT_POOL[1]), 0)),
      Request("/send/sol", JsonBody(SendSolFields(ALICE, BOB, AMOUNT_POOL[3]), 0)),
      Request("/send/token",
              JsonBody(SendTokenFields(BOB, SYSTEM_PROGRAM_ID, ALICE, AMOUNT_POOL[3]), 0)) }

---------------------------------------------------------------------------
(* The server *)

VARIABLES
    exch,    \* exch[w]: the exchange worker w has in hand
    client,  \* what a client keeps of the responses it was sent
    last     \* the exchange last served, for the clients that compare responses

vars == <<exch, client, last>>

NoResponse == [success |-> FALSE, data |-> None, error |-> None]

Idle ==
    [stage |-> "idle", route |-> "", body |-> NoBody, resp |-> NoResponse,
     checks |-> <<>>]

Init ==
    /\ exch = [w \in 1..Workers |-> Idle]
    /\ client = [keys |-> None, signed |-> None]
    /\ last = None

\* main.rs: the router hands a request to the handler of its route
Receive(w, request) ==
    /\ exch[w].stage = "idle"
    /\ exch' = [exch EXCEPT ![w] =
                   [stage |-> "received", route |-> request.route,
                    body |-> request.body, resp |-> NoResponse, checks |-> <<>>]]
    /\ UNCHANGED <<client, last>>

\* a response taken from the exchange last served on the route, when there is one
RespondFromLast(w, out) ==
    /\ exch' = [exch EXCEPT ![w].stage = "responded",
                            ![w].resp = IF last # None /\ last[1].route = exch[w].route
                                        THEN last[1].resp ELSE out.resp,
                            ![w].checks = out.checks]
    /\ UNCHANGED <<client, last>>

Respond(w, out) ==
    /\ exch' = [exch EXCEPT ![w].stage = "responded", ![w].resp = out.resp,
                            ![w].checks = out.checks]
    /\ UNCHANGED <<client, last>>

Routed(w, route) == exch[w].stage = "received" /\ exch[w].route = route

HealthCheck(w) == Routed(w, "/") /\ Respond(w, health_check)

GenerateKeypair(w) ==
    /\ Routed(w, "/keypair")
    /\ \E key \in Keys : Respond(w, generate_keypair(key))

CreateToken(w) == Routed(w, "/token/create") /\ Respond(w, create_token(exch[w].body))

MintToken(w) == Routed(w, "/token/mint") /\ Respond(w, mint_token(exch[w].body))

SignMessage(w) == Routed(w, "/message/sign") /\ Respond(w, sign_message(exch[w].body))

VerifyMessage(w) ==
    Routed(w, "/message/verify") /\ Respond(w, verify_message(exch[w].body))

SendSol(w) == Routed(w, "/send/sol") /\ Respond(w, send_sol(exch[w].body))

SendToken(w) == Routed(w, "/send/token") /\ Respond(w, send_token(exch[w].body))

Handle(w) ==
    \/ HealthCheck(w)
    \/ GenerateKeypair(w)
    \/ CreateToken(w)
    \/ MintToken(w)
    \/ SignMessage(w)
    \/ VerifyMessage(w)
    \/ SendSol(w)
    \/ SendToken(w)

\* the response is sent and the worker is free
Deliver(w) ==
    /\ exch[w].stage = "responded"
    /\ exch' = [exch EXCEPT ![w] = Idle]
    /\ UNCHANGED <<client, last>>

\* the response is sent to a client that keeps the key pair and the signature
\* it was last sent
DeliverToClient(w) ==
    /\ exch[w].stage = "responded"
    /\ exch' = [exch EXCEPT ![w] = Idle]
    /\ client' =
          IF exch[w].route = "/keypair"
          THEN [client EXCEPT !.keys = exch[w].resp.data]
          ELSE IF exch[w].route = "/message/sign" /\ exch[w].resp.success
          THEN [client EXCEPT !.signed =
                   Some([secret |-> SignMessageRequest(exch[w].body).secret,
                         message |-> exch[w].resp.data[1].message,
                         signature |-> exch[w].resp.data[1].signature,
                         public_key |-> exch[w].resp.data[1].public_key])]
          ELSE client
    /\ UNCHANGED last

Served(e) == [route |-> e.route, body |-> e.body, resp |-> e.resp]

\* the response is sent and the exchange is remembered as the last served
DeliverLogged(w) ==
    /\ exch[w].stage = "responded"
    /\ exch' = [exch EXCEPT ![w] = Idle]
    /\ last' = Some(Served(exch[w]))
    /\ UNCHANGED client

\* one request at a time, any request
Next ==
    \/ \E r \in Requests : Receive(1, r)
    \/ Handle(1)
    \/ Deliver(1)

Spec == Init /\ [][Next]_vars

\* one client that generates keys, signs and verifies
NextSession ==
    \/ \E r \in SessionRequests : Receive(1, r)
    \/ GenerateKeypair(1)
    \/ SignMessage(1)
    \/ VerifyMessage(1)
    \/ DeliverToClient(1)

SpecSession == Init /\ [][NextSession]_vars

\* requests handled alongside each other
NextConcurrent ==
    \E w \in 1..Workers :
        \/ \E r \in ConcurrentRequests : Receive(w, r)
        \/ GenerateKeypair(w)
        \/ CreateToken(w)
        \/ MintToken(w)
        \/ SignMessage(w)
        \/ VerifyMessage(w)
        \/ SendSol(w)
        \/ SendToken(w)
        \/ DeliverLogged(w)

SpecConcurrent == Init /\ [][NextConcurrent]_vars

---------------------------------------------------------------------------
(* Properties *)

Responded(w) == exch[w].stage = "responded"

InstructionRoutes == {"/token/create", "/token/mint", "/send/sol", "/send/token"}

IsError(resp, message) ==
    ~resp.success /\ resp.error = Some(message) /\ resp.data = None

\* the checks of a handler as <<field, failed, message>>, in the order claimed:
\* the checks run up to the first that fails, or all of them
ChecksRun(order) ==
    IF \E i \in 1..Len(order) : order[i][2]
    THEN [j \in 1..(CHOOSE i \in 1..Len(order) :
                       order[i][2] /\ \A k \in 1..(i - 1) : ~order[k][2]) |->
             order[j][1]]
    ELSE [j \in 1..Len(order) |-> order[j][1]]

\* the message of the first check that fails, "" when none does
FirstFailure(order) ==
    IF \E i \in 1..Len(order) : order[i][2]
    THEN order[CHOOSE i \in 1..Len(order) :
                   order[i][2] /\ \A k \in 1..(i - 1) : ~order[k][2]][3]
    ELSE ""

\* an exchange answers as the checks in this order say: the error of the first
\* failing check and no check after it, success when none fails
AnswersInOrder(e, order) ==
    /\ e.checks = ChecksRun(order)
    /\ IF FirstFailure(order) = "" THEN e.resp.success
       ELSE IsError(e.resp, FirstFailure(order))

BadAddress(text) == ~PubkeyFromStr(text).ok

CreateTokenOrder(req) ==
    << <<"mintAuthority", BadAddress(req.mint_authority),
         "Invalid mint authority public key">>,
       <<"mint", BadAddress(req.mint), "Invalid mint public key">> >>

\* the order of the request's fields, which is the order of the code
MintTokenCodeOrder(req) ==
    << <<"mint", BadAddress(req.mint), "Invalid mint public key">>,
       <<"destination", BadAddress(req.destination),
         "Invalid destination public key">>,
       <<"authority", BadAddress(req.authority), "Invalid authority public key">> >>

\* the order of the account list
MintTokenAccountOrder(req) ==
    << <<"destination", BadAddress(req.destination),
         "Invalid destination public key">>,
       <<"mint", BadAddress(req.mint), "Invalid mint public key">>,
       <<"authority", BadAddress(req.authority), "Invalid authority public key">> >>

SendSolOrder(req) ==
    << <<"from", BadAddress(req.from), "Invalid sender public key">>,
       <<"to", BadAddress(req.to), "Invalid recipient public key">>,
       <<"lamports", U64IsZero(req.lamports), "Amount must be greater than 0">> >>

SendTokenOrder(req) ==
    << <<"destination", BadAddress(req.destination),
         "Invalid destination public key">>,
       <<"mint", BadAddress(req.mint), "Invalid mint public key">>,
       <<"owner", BadAddress(req.owner), "Invalid owner public key">>,
       <<"amount", U64IsZero(req.amount), "Amount must be greater than 0">> >>

\* the three operations whose order of validation the code and the account
\* lists agree on
OthersAnswerInOrder(e) ==
    /\ e.route = "/token/create" /\ Deserializes(e.body, CreateTokenSchema)
          => AnswersInOrder(e, CreateTokenOrder(CreateTokenRequest(e.body)))
    /\ e.route = "/send/sol" /\ Deserializes(e.body, SendSolSchema)
          => AnswersInOrder(e, SendSolOrder(SendSolRequest(e.body)))
    /\ e.route = "/send/token" /\ Deserializes(e.body, SendTokenSchema)
          => AnswersInOrder(e, SendTokenOrder(SendTokenRequest(e.body)))

\* the answer alone: the error of the first failing check of this order
AnswersFirstFailure(e, order) ==
    IF FirstFailure(order) = "" THEN e.resp.success
    ELSE IsError(e.resp, FirstFailure(order))

\* C1 as claimed: every instruction operation validates its address fields in
\* the order of the account list, for mint-token destination, mint, authority,
\* then the amount, and answers with the error of the first failing check.
C1_AccountListOrder ==
    \A w \in 1..Workers :
        Responded(w) =>
            /\ OthersAnswerInOrder(exch[w])
            /\ exch[w].route = "/token/mint" /\ Deserializes(exch[w].body, MintTokenSchema)
                  => AnswersFirstFailure(exch[w],
                                    MintTokenAccountOrder(MintTokenRequest(exch[w].body)))

\* C1 as amended: every instruction operation validates its address fields in
\* the order of the request's fields (create-token mintAuthority, mint;
\* mint-token mint, destination, authority; send-sol from, to; send-token
\* destination, mint, owner), then that the amount is not zero, runs no check
\* after the first that fails, and answers with that check's error.
C1_FieldOrder ==
    \A w \in 1..Workers :
        Responded(w) =>
            /\ OthersAnswerInOrder(exch[w])
            /\ exch[w].route = "/token/mint" /\ Deserializes(exch[w].body, MintTokenSchema)
                  => AnswersInOrder(exch[w],
                                    MintTokenCodeOrder(MintTokenRequest(exch[w].body)))

\* a mint-token request whose destination and mint are both invalid is answered
\* "Invalid mint public key", the destination unchecked
C1_Witness ==
    /\ Responded(1)
    /\ exch[1].route = "/token/mint"
    /\ Deserializes(exch[1].body, MintTokenSchema)
    /\ BadAddress(MintTokenRequest(exch[1].body).destination)
    /\ BadAddress(MintTokenRequest(exch[1].body).mint)
    /\ IsError(exch[1].resp, "Invalid mint public key")
    /\ exch[1].checks = <<"mint">>

\* C2: every response is an envelope with exactly one of data and error:
\* success with data and no error, or failure with an error and no data, in
\* the envelope and in its serialized form.
C2_EnvelopeHoldsOne ==
    \A w \in 1..Workers :
        Responded(w) =>
            LET resp == exch[w].resp
                keys == SerializedKeys(resp)
            IN  /\ resp.success => /\ Len(resp.data) = 1 /\ resp.error = None
                                   /\ keys = {"success", "data"}
                /\ ~resp.success => /\ Len(resp.error) = 1 /\ resp.data = None
                                    /\ keys = {"success", "error"}

\* a send-token request with a bad owner, and none of the descriptor sent
C2_Witness ==
    /\ Responded(1)
    /\ exch[1].route = "/send/token"
    /\ Deserializes(exch[1].body, SendTokenSchema)
    /\ ~exch[1].resp.success
    /\ exch[1].checks = <<"destination", "mint", "owner">>
    /\ SerializedKeys(exch[1].resp) = {"success", "error"}

\* u64::from_le_bytes, to the four 16-bit words of the number
U64FromLeBytes(bytes) ==
    <<bytes[7] + 256 * bytes[8], bytes[5] + 256 * bytes[6],
      bytes[3] + 256 * bytes[4], bytes[1] + 256 * bytes[2]>>

IsBytes(bytes) == \A i \in 1..Len(bytes) : bytes[i] \in 0..255

\* the instruction data of a successful response, decoded from base64
DecodedData(e) == Base64DecodeImpl(e.resp.data[1].instruction_data)

\* data is the discriminator followed by the amount as 8 little-endian bytes
HasLayout(data, discriminator, amount) ==
    /\ data.ok
    /\ IsBytes(data.bytes)
    /\ Len(data.bytes) = Len(discriminator) + 8
    /\ SubSeq(data.bytes, 1, Len(discriminator)) = discriminator
    /\ U64FromLeBytes(SubSeq(data.bytes, Len(discriminator) + 1, Len(data.bytes)))
          = amount

\* C3: the data of a successful instruction response decodes from base64 to
\* the layout of its operation: create-token [0, decimals]; mint-token [7] and
\* the amount as u64 little-endian; send-sol [2,0,0,0] and the lamports as u64
\* little-endian; send-token [3] and the amount as u64 little-endian.
C3_DataLayout ==
    \A w \in 1..Workers :
        Responded(w) /\ exch[w].resp.success =>
            LET e == exch[w]
            IN  /\ e.route = "/token/create" =>
                      /\ DecodedData(e).ok
                      /\ DecodedData(e).bytes = <<0, CreateTokenRequest(e.body).decimals>>
                      /\ CreateTokenRequest(e.body).decimals \in 0..255
                /\ e.route = "/token/mint" =>
                      HasLayout(DecodedData(e), <<7>>, MintTokenRequest(e.body).amount)
                /\ e.route = "/send/sol" =>
                      HasLayout(DecodedData(e), <<2, 0, 0, 0>>,
                                SendSolRequest(e.body).lamports)
                /\ e.route = "/send/token" =>
                      HasLayout(DecodedData(e), <<3>>, SendTokenRequest(e.body).amount)

\* send-sol of 1_000_000 lamports: [2,0,0,0] and 0x40, 0x42, 0x0f, 0, 0, 0, 0, 0
C3_Witness ==
    /\ Responded(1)
    /\ exch[1].route = "/send/sol"
    /\ exch[1].resp.success
    /\ SendSolRequest(exch[1].body).lamports = <<0, 0, 15, 16960>>
    /\ DecodedData(exch[1]).bytes = <<2, 0, 0, 0, 64, 66, 15, 0, 0, 0, 0, 0>>

\* the account carries the address the text decodes to
Carries(account, text) ==
    /\ Base58DecodeImpl(account.pubkey).ok
    /\ Base58DecodeImpl(account.pubkey).bytes = Base58DecodeImpl(text).bytes

\* C4: the accounts of a successful mint-token response are the destination
\* (not signer, writable), the mint (not signer, writable) and the authority
\* (signer, not writable), in this order, each with the address of the request
\* field of that name, in whatever order the body lists the fields.
C4_MintAccounts ==
    \A w \in 1..Workers :
        Responded(w) /\ exch[w].route = "/token/mint" /\ exch[w].resp.success =>
            LET req == MintTokenRequest(exch[w].body)
                accounts == exch[w].resp.data[1].accounts
            IN  /\ Len(accounts) = 3
                /\ Carries(accounts[1], req.destination)
                /\ ~accounts[1].is_signer /\ accounts[1].is_writable
                /\ Carries(accounts[2], req.mint)
                /\ ~accounts[2].is_signer /\ accounts[2].is_writable
                /\ Carries(accounts[3], req.authority)
                /\ accounts[3].is_signer /\ ~accounts[3].is_writable

\* a body that lists the destination first, the three addresses different
C4_Witness ==
    /\ Responded(1)
    /\ exch[1].route = "/token/mint"
    /\ exch[1].resp.success
    /\ exch[1].body.fields[1][1] = "destination"
    /\ MintTokenRequest(exch[1].body).mint = ALICE
    /\ MintTokenRequest(exch[1].body).destination = BOB
    /\ MintTokenRequest(exch[1].body).authority = SYSTEM_PROGRAM_ID
    /\ exch[1].resp.data[1].accounts[1].pubkey = BOB

\* the texts of a verify request, decoded by the algorithms themselves
VerifyInputs(req) ==
    LET pubkey == Base58DecodeImpl(req.pubkey)
        signature == Base64DecodeImpl(req.signature)
    IN  [pubkey |-> pubkey,
         signature |-> signature,
         well_formed |-> /\ pubkey.ok /\ Len(pubkey.bytes) = 32
                         /\ pubkey.bytes \in CURVE_POINTS
                         /\ signature.ok /\ Len(signature.bytes) = 64,
         matches |-> \E k \in 1..Len(SECRET_KEY_POOL) :
                         /\ pubkey.bytes = PUBLIC_KEY_POOL[k]
                         /\ signature.bytes =
                                SIGNATURE_POOL[k][MessageIndex(req.message)]]

\* C5: a verify request whose pubkey is base58 of 32 bytes that are a point of
\* the curve and whose signature is base64 of 64 bytes is answered with
\* success, valid telling whether the signature matches; an error is answered
\* only when one of these checks fails, and then verification was not invoked.
\* (The requests are those whose body deserializes to a VerifyMessageRequest.)
C5_InvalidSignatureIsNoError ==
    \A w \in 1..Workers :
        Responded(w) /\ exch[w].route = "/message/verify"
                     /\ Deserializes(exch[w].body, VerifyMessageSchema) =>
            LET req == VerifyMessageRequest(exch[w].body)
                in == VerifyInputs(req)
                resp == exch[w].resp
            IN  /\ in.well_formed =>
                      /\ resp.success
                      /\ resp.data[1].valid = in.matches
                      /\ exch[w].checks[Len(exch[w].checks)] = "verify"
                /\ ~resp.success =>
                      /\ ~in.well_formed
                      /\ \A i \in 1..Len(exch[w].checks) : exch[w].checks[i] # "verify"

\* a signature with one bit changed, under the key of the signature it was
C5_Witness ==
    /\ Responded(1)
    /\ exch[1].route = "/message/verify"
    /\ Deserializes(exch[1].body, VerifyMessageSchema)
    /\ VerifyMessageRequest(exch[1].body).pubkey = Base58Encode(PUBLIC_KEY_POOL[1])
    /\ VerifyMessageRequest(exch[1].body).message = MESSAGE_POOL[1]
    /\ Base64DecodeImpl(VerifyMessageRequest(exch[1].body).signature).bytes
          = FlipBit(SIGNATURE_POOL[1][1])
    /\ exch[1].resp.success
    /\ ~exch[1].resp.data[1].valid

\* the text is the base58 form of 32 bytes
IsAddress(text) ==
    /\ Len(text) <= 44
    /\ Base58DecodeImpl(text).ok
    /\ Len(Base58DecodeImpl(text).bytes) = 32

ZERO == <<0, 0, 0, 0>>

\* C6: a send-sol request with valid from and to, and a send-token request
\* with valid destination, mint and owner, fails with "Amount must be greater
\* than 0" and no data when its lamports or amount is 0, and succeeds when it
\* is not.
C6_ZeroAmount ==
    \A w \in 1..Workers :
        Responded(w) =>
            /\ exch[w].route = "/send/sol" /\ Deserializes(exch[w].body, SendSolSchema) =>
                  LET req == SendSolRequest(exch[w].body)
                  IN  IsAddress(req.from) /\ IsAddress(req.to) =>
                          IF req.lamports = ZERO
                          THEN IsError(exch[w].resp, "Amount must be greater than 0")
                          ELSE exch[w].resp.success /\ exch[w].resp.data # None
            /\ exch[w].route = "/send/token"
                  /\ Deserializes(exch[w].body, SendTokenSchema) =>
                  LET req == SendTokenRequest(exch[w].body)
                  IN  IsAddress(req.destination) /\ IsAddress(req.mint)
                         /\ IsAddress(req.owner) =>
                          IF req.amount = ZERO
                          THEN IsError(exch[w].resp, "Amount must be greater than 0")
                          ELSE exch[w].resp.success /\ exch[w].resp.data # None

\* a send-token request of amount 0 between valid addresses
C6_Witness ==
    /\ Responded(1)
    /\ exch[1].route = "/send/token"
    /\ Deserializes(exch[1].body, SendTokenSchema)
    /\ IsAddress(SendTokenRequest(exch[1].body).destination)
    /\ IsAddress(SendTokenRequest(exch[1].body).mint)
    /\ IsAddress(SendTokenRequest(exch[1].body).owner)
    /\ SendTokenRequest(exch[1].body).amount = ZERO
    /\ IsError(exch[1].resp, "Amount must be greater than 0")

\* the address fields of an instruction request, in the order the handler
\* parses them
AddressFields(e) ==
    IF e.route = "/token/create"
    THEN <<CreateTokenRequest(e.body).mint_authority, CreateTokenRequest(e.body).mint>>
    ELSE IF e.route = "/token/mint"
    THEN <<MintTokenRequest(e.body).mint, MintTokenRequest(e.body).destination,
           MintTokenRequest(e.body).authority>>
    ELSE IF e.route = "/send/sol"
    THEN <<SendSolRequest(e.body).from, SendSolRequest(e.body).to>>
    ELSE <<SendTokenRequest(e.body).destination, SendTokenRequest(e.body).mint,
           SendTokenRequest(e.body).owner>>

SchemaOf(route) ==
    IF route = "/token/create" THEN CreateTokenSchema
    ELSE IF route = "/token/mint" THEN MintTokenSchema
    ELSE IF route = "/send/sol" THEN SendSolSchema
    ELSE SendTokenSchema

\* the first address field that does not parse, 0 when all do
FailingField(e) ==
    LET bad == {i \in 1..Len(AddressFields(e)) : BadAddress(AddressFields(e)[i])}
    IN  IF bad = {} THEN 0 ELSE CHOOSE i \in bad : \A j \in bad : i <= j

\* how the field fails: not base58, or base58 of other than 32 bytes
FailureKind(text) ==
    IF ~Base58DecodeImpl(text).ok THEN "format" ELSE "length"

IsInstructionRequest(e) ==
    /\ e.stage = "responded"
    /\ e.route \in InstructionRoutes
    /\ Deserializes(e.body, SchemaOf(e.route))

\* C7: when the same address field of two requests of an instruction
\* operation fails to parse, in one because it is not base58 and in the other
\* because it decodes to other than 32 bytes, the two responses differ.
C7_KindsDistinguishable ==
    \A v \in 1..Workers : \A w \in 1..Workers :
        /\ IsInstructionRequest(exch[v]) /\ IsInstructionRequest(exch[w])
        /\ exch[v].route = exch[w].route
        /\ FailingField(exch[v]) # 0
        /\ FailingField(exch[v]) = FailingField(exch[w])
        /\ FailureKind(AddressFields(exch[v])[FailingField(exch[v])]) = "format"
        /\ FailureKind(AddressFields(exch[w])[FailingField(exch[w])]) = "length"
        => exch[v].resp # exch[w].resp

Decodes32(text) == Base58DecodeImpl(text).ok /\ Len(Base58DecodeImpl(text).bytes) = 32

SignsWithOwnKey(e) ==
    /\ e.stage = "responded"
    /\ e.route = "/message/sign"
    /\ Deserializes(e.body, SignMessageSchema)
    /\ client.keys # None
    /\ SignMessageRequest(e.body).secret = client.keys[1].secret

\* the client verifies what it signed with the secret of its key pair, under
\* the pubkey of the pair
VerifiesOwnSignature(e) ==
    /\ e.stage = "responded"
    /\ e.route = "/message/verify"
    /\ Deserializes(e.body, VerifyMessageSchema)
    /\ client.keys # None
    /\ client.signed # None
    /\ client.signed[1].secret = client.keys[1].secret
    /\ VerifyMessageRequest(e.body).pubkey = client.keys[1].pubkey
    /\ VerifyMessageRequest(e.body).message = client.signed[1].message
    /\ VerifyMessageRequest(e.body).signature = client.signed[1].signature

\* C9: signing a message with the secret of a key pair the keypair operation
\* returned succeeds and returns the pubkey of the pair as public_key, and
\* verifying the returned signature with that pubkey and the same message
\* succeeds with valid = true.
C9_SignVerifyRoundTrip ==
    \A w \in 1..Workers :
        /\ SignsWithOwnKey(exch[w]) =>
              /\ exch[w].resp.success
              /\ exch[w].resp.data[1].public_key = client.keys[1].pubkey
              /\ exch[w].resp.data[1].message = SignMessageRequest(exch[w].body).message
        /\ VerifiesOwnSignature(exch[w]) =>
              /\ exch[w].resp.success
              /\ exch[w].resp.data[1].valid

\* the second key pair, the empty message signed, and the signature verified
C9_Witness ==
    /\ VerifiesOwnSignature(exch[1])
    /\ client.keys[1].secret = Base58Encode(SECRET_KEY_POOL[2])
    /\ client.signed[1].message = MESSAGE_POOL[2]
    /\ client.signed[1].public_key = client.keys[1].pubkey
    /\ exch[1].resp.success
    /\ exch[1].resp.data[1].valid

\* the exchanges answered: those the workers hold and the one last served
Answered ==
    {Served(exch[w]) : w \in {v \in 1..Workers : Responded(v)}}
    \cup (IF last = None THEN {} ELSE {last[1]})

=============================================================================
